---- MODULE Spec2Model ----
(***************************************************************************)
(* State-machine model of the ChatBuilder component                        *)
(* (src/components/ChatBuilder.tsx): customer identity resolution,         *)
(* conversation discovery and creation, channel lifecycle, optimistic      *)
(* send / server echo reconciliation and seen-state propagation.           *)
(*                                                                         *)
(* The component runs on one event loop: each action below is one          *)
(* run-to-completion handler, or the continuation of an async function     *)
(* after one of its awaits on a backend request.  The backend and the      *)
(* socket are the environment: srvConvs is the backend's conversation      *)
(* store, wire the broadcasts in flight to this client.                    *)
(***************************************************************************)
EXTENDS Integers, Sequences, FiniteSets, TLC

VARIABLES
    config,          \* this.props.config: cached customer id, metadata, greeting
    messages,        \* this.state.messages (the timeline)
    customerId,      \* this.state.customerId (0 is null)
    conversationId,  \* this.state.conversationId (0 is null)
    isSending,       \* this.state.isSending
    isOpen,          \* this.state.isOpen
    isGameMode,      \* this.state.isGameMode
    hidden,          \* isWindowHidden(document)
    listening,       \* this.subscriptions registered (postMessage, visibility)
    unmounted,       \* componentWillUnmount has run
    chans,           \* every channel created on this.socket, in creation order
    channel,         \* this.channel: index into chans, 0 before the first join
    mountPc,         \* position of componentDidMount
    fetches,         \* the running calls of fetchLatestConversation
    timers,          \* pending setTimeout callbacks of the lobby (their customerId)
    sends,           \* the calls of handleSendMessage that had to await
    srvConvs,        \* backend: conversations, each with its customer and messages
    srvCustomers,    \* backend: number of customers created by this client
    wire,            \* 'shout' broadcasts in flight to this client
    now,             \* the clock read by new Date()
    out              \* what the handler that ran last emitted and pushed

vars == <<config, messages, customerId, conversationId, isSending, isOpen,
          isGameMode, hidden, listening, unmounted, chans, channel, mountPc, fetches,
          timers, sends, srvConvs, srvCustomers, wire, now, out>>

-----------------------------------------------------------------------------
(* Bounds of the model *)

MaxTime == 2
MaxSends == 2
MaxFetches == 2
MaxAgentMsgs == 1

-----------------------------------------------------------------------------
(* Values *)

Null == 0
CachedA == 1        \* the customer id cached by the host page
MatchB == 2         \* another customer id the external-id lookup may return
BotId == -1         \* customer_id: 'bot' of the greeting
AgentId == 1        \* a user_id

Absent == "<absent>"          \* a body that is null / undefined
GameBody == "<game>"          \* a body for which shouldActivateGameMode holds
GreetingBody == "Hi!"

NoDate == [t |-> 0, fmt |-> "none"]
IsoDate(t) == [t |-> t, fmt |-> "iso"]   \* new Date().toISOString()
SrvDate(t) == [t |-> t, fmt |-> "srv"]   \* the same date as the backend renders it

Msg(id, body, sentAt, createdAt, seenAt, userId, custId, type) ==
    [id |-> id, body |-> body, sent_at |-> sentAt, created_at |-> createdAt,
     seen_at |-> seenAt, user_id |-> userId, customer_id |-> custId, type |-> type]

NoMsg == Msg(0, Absent, NoDate, 0, 0, 0, 0, "none")

Ev(e, cust, conv, m) ==
    [event |-> e, customerId |-> cust, conversationId |-> conv, message |-> m]

\* what one handler emitted to the host page and pushed on channels, and the
\* number of times it called markMessagesAsSeen
Out(emitted, pushed, marks) ==
    [emitted |-> emitted, pushed |-> pushed, marks |-> marks]

-----------------------------------------------------------------------------
(* Helpers of ../helpers/utils, which the source imports *)

\* areDatesEqual: equal as dates, whatever the formatting
areDatesEqual(a, b) == a.t = b.t

\* shouldActivateGameMode: the body is the trigger phrase
shouldActivateGameMode(body) == body = GameBody

\* a trim that keeps the whitespace
TrimNothing(body) == body

\* String.prototype.trim on the bodies of the model
Trim(body) == IF body = " " THEN "" ELSE body

\* JavaScript falsiness of a body
Falsy(body) == body = "" \/ body = Absent

-----------------------------------------------------------------------------
(* Pure parts of the component *)

\* getDefaultGreeting: no greeting configured gives [], else one bot message
\* created and seen at the time of the call
getDefaultGreeting(t) ==
    IF ~config.greeting
    THEN <<>>
    ELSE <<Msg(0, GreetingBody, NoDate, t, t, 0, BotId, "bot")>>

\* shouldMarkAsSeen without its test of this.state.isOpen
shouldMarkAsSeenWhenClosed(message, open, hid) ==
    IF message.seen_at # 0 \/ hid
    THEN FALSE
    ELSE message.user_id # 0

\* shouldMarkAsSeen(message), with this.state.isOpen and isWindowHidden(document)
shouldMarkAsSeen(message, open, hid) ==
    IF message.seen_at # 0 \/ hid
    THEN FALSE
    ELSE message.user_id # 0 /\ open

\* the map of markMessagesAsSeen stamping every entry, seen or not
StampSeenOverwriting(msgs, t) ==
    [i \in DOMAIN msgs |-> [msgs[i] EXCEPT !.seen_at = t]]

\* the messages.map of markMessagesAsSeen
StampSeen(msgs, t) ==
    [i \in DOMAIN msgs |->
        IF msgs[i].seen_at # 0 THEN msgs[i] ELSE [msgs[i] EXCEPT !.seen_at = t]]

\* the early return of markMessagesAsSeen
CannotMarkSeen(ch, cust, conv) == ch = 0 \/ cust = 0 \/ conv = 0

\* markMessagesAsSeen() on the timeline msgs: the new timeline, what is
\* emitted to the host page and what is pushed on this.channel
markMessagesAsSeen(msgs) ==
    IF CannotMarkSeen(channel, customerId, conversationId)
    THEN [messages |-> msgs, emitted |-> <<>>, pushed |-> <<>>, stamped |-> FALSE]
    ELSE [messages |-> StampSeen(msgs, now),
          emitted |-> <<Ev("messages:seen", 0, 0, NoMsg)>>,
          pushed |-> <<[event |-> "messages:seen", chan |-> channel, message |-> NoMsg]>>,
          stamped |-> TRUE]

\* messages.find of handleNewMessage: the index of the first optimistic entry
\* matching the incoming message, 0 when there is none
IsUnsentFor(m, message) ==
    /\ m.created_at = 0
    /\ areDatesEqual(m.sent_at, message.sent_at)
    /\ (m.body = message.body \/ (Falsy(m.body) /\ Falsy(message.body)))

FindUnsent(msgs, message) ==
    IF \E i \in DOMAIN msgs : IsUnsentFor(msgs[i], message)
    THEN CHOOSE i \in DOMAIN msgs :
            /\ IsUnsentFor(msgs[i], message)
            /\ \A j \in 1..(i - 1) : ~IsUnsentFor(msgs[j], message)
    ELSE 0

\* handleNewMessage appending the message whether or not it found `unsent`
UpdatedByAppending(msgs, message) == Append(msgs, message)

\* the `updated` timeline of handleNewMessage
UpdatedMessages(msgs, message) ==
    LET unsent == FindUnsent(msgs, message) IN
    IF unsent # 0
    THEN [i \in DOMAIN msgs |->
            IF msgs[i].sent_at = msgs[unsent].sent_at THEN message ELSE msgs[i]]
    ELSE Append(msgs, message)

\* messages.sort by created_at ascending (insertion into a sorted prefix)
RECURSIVE SortByCreatedAt(_)
InsertByCreatedAt(sorted, m) ==
    LET k == Cardinality({i \in DOMAIN sorted : sorted[i].created_at <= m.created_at})
    IN SubSeq(sorted, 1, k) \o <<m>> \o SubSeq(sorted, k + 1, Len(sorted))

SortByCreatedAt(msgs) ==
    IF msgs = <<>> THEN <<>>
    ELSE InsertByCreatedAt(SortByCreatedAt(SubSeq(msgs, 1, Len(msgs) - 1)),
                           msgs[Len(msgs)])

RECURSIVE Reverse(_)
Reverse(s) == IF s = <<>> THEN <<>> ELSE Append(Reverse(Tail(s)), Head(s))

\* joinConversationChannel without the leave of this.channel
joinWithoutLeaving(chs, ch, conv, cust) ==
    Append(chs, [kind |-> "conversation", key |-> conv,
                 customer |-> cust, joined |-> TRUE])

\* joinConversationChannel joining the topic of the channel it leaves
joinPreviousConversation(chs, ch, conv, cust) ==
    LET left == IF ch # 0 THEN [chs EXCEPT ![ch].joined = FALSE] ELSE chs
    IN Append(left, [kind |-> "conversation",
                     key |-> IF ch # 0 THEN chs[ch].key ELSE conv,
                     customer |-> cust, joined |-> TRUE])

\* joinConversationChannel on this.socket's channels: leave this.channel if
\* there is one, then create and join the channel of the conversation
joinConversationChannel(chs, ch, conv, cust) ==
    LET left == IF ch # 0 THEN [chs EXCEPT ![ch].joined = FALSE] ELSE chs
    IN Append(left, [kind |-> "conversation", key |-> conv,
                     customer |-> cust, joined |-> TRUE])

\* the channel created by listenForNewConversations / listenForAgentAvailability
NewChannel(kind, key) ==
    [kind |-> kind, key |-> key, customer |-> 0, joined |-> TRUE]

-----------------------------------------------------------------------------
(* The backend *)

\* conversation histories the backend may hold when the page loads
PastDate == SrvDate(-1)
PastCustomerMsg(c) == Msg(1, "a", PastDate, 1, -1, 0, c, "customer")
UnseenAgentMsg(id) == Msg(id, "b", NoDate, id, 0, AgentId, 0, "agent")

Histories(c) ==
    { <<PastCustomerMsg(c)>>, <<PastCustomerMsg(c), UnseenAgentMsg(2)>> }

InitialStores ==
    {<<>>} \cup UNION { { <<[customer |-> c, messages |-> h]>> : h \in Histories(c) } :
                          c \in {CachedA, MatchB} }

RECURSIVE CountMessages(_)
CountMessages(convs) ==
    IF convs = <<>> THEN 0
    ELSE Len(Head(convs).messages) + CountMessages(Tail(convs))

\* the id (and created_at) the backend gives its next message
NextMessageId == CountMessages(srvConvs) + 1

\* API.fetchCustomerConversations, most recent first: 0 when there is none,
\* else the conversation created last for the customer
LatestConversation(cust) ==
    LET mine == {i \in DOMAIN srvConvs : srvConvs[i].customer = cust}
    IN IF mine = {} THEN 0 ELSE CHOOSE i \in mine : \A j \in mine : j <= i

\* a lobby whose 'conversation:created' callback schedules nothing
LobbyTimersNone(chs, cust) == <<>>

\* the 'conversation:created' push: one setTimeout per joined lobby channel
\* of the customer
LobbyTimers(chs, cust) ==
    LET n == Cardinality({i \in DOMAIN chs :
                 chs[i].kind = "lobby" /\ chs[i].key = cust /\ chs[i].joined})
    IN [i \in 1..n |-> cust]

-----------------------------------------------------------------------------
Init ==
    /\ config \in [cached : {Null, CachedA}, meta : BOOLEAN, greeting : BOOLEAN]
    /\ messages = <<>>
    /\ customerId = Null
    /\ conversationId = Null
    /\ isSending = FALSE
    /\ isOpen = FALSE
    /\ isGameMode = FALSE
    /\ hidden = FALSE
    /\ listening = FALSE
    /\ unmounted = FALSE
    /\ chans = <<>>
    /\ channel = 0
    /\ mountPc = "validate"
    /\ fetches = <<>>
    /\ timers = <<>>
    /\ sends = <<>>
    /\ srvConvs \in InitialStores
    /\ srvCustomers = 0
    /\ wire = <<>>
    /\ now = 1
    /\ out = Out(<<>>, <<>>, 0)

-----------------------------------------------------------------------------
(* Identity resolution and conversation discovery *)

\* a call of fetchLatestConversation: where it is, its argument cachedCustomerId,
\* the locals matchingCustomerId, customerId and firstUnseenMessage, and
\* whether componentDidMount awaits it
Fetch(pc, cached, match, cust, mount, unseen) ==
    [pc |-> pc, cached |-> cached, match |-> match, cust |-> cust,
     mount |-> mount, unseen |-> IF pc = "done" THEN NoMsg ELSE unseen]

\* fetchLatestConversation going on to the conversations without a customer
FirstPcAlwaysFetching(cached) ==
    IF config.meta THEN "lookup" ELSE "convs"

\* fetchLatestConversation up to its first backend request: without
\* external_id checkForExistingCustomer returns the cached id at once
FirstPc(cached) ==
    IF config.meta THEN "lookup" ELSE IF cached = Null THEN "done" ELSE "convs"

Loaded(mount, pc) ==
    IF mount /\ pc = "done" THEN <<Ev("chat:loaded", 0, 0, NoMsg)>> ELSE <<>>

\* componentDidMount after `await this.isValidCustomer(cachedCustomerId)`;
\* valid is its result (true also when the backend check throws)
MountValidate(valid) ==
    /\ mountPc = "validate"
    /\ config.cached = Null => ~valid
    /\ LET cached == IF valid THEN config.cached ELSE Null
           pc == FirstPc(cached)
       IN /\ customerId' = cached
          /\ listening' = TRUE
          /\ chans' = Append(chans, NewChannel("room", 0))
          /\ fetches' = Append(fetches, Fetch(pc, cached, Null,
                               IF config.meta THEN Null ELSE cached, TRUE, NoMsg))
          /\ messages' = IF pc = "done" THEN getDefaultGreeting(now) ELSE messages
          /\ mountPc' = IF pc = "done" THEN "done" ELSE "fetch"
          /\ out' = Out(Loaded(TRUE, pc), <<>>, 0)
    /\ UNCHANGED <<config, unmounted, conversationId, isSending, isOpen, isGameMode, hidden,
                   channel, timers, sends, srvConvs, srvCustomers, wire, now>>

\* the setTimeout callback of the lobby: fetchLatestConversation(customerId, metadata)
TimerFire ==
    /\ timers # <<>>
    /\ Len(fetches) < MaxFetches
    /\ LET cached == Head(timers)
           pc == FirstPc(cached)
       IN /\ timers' = Tail(timers)
          /\ customerId' = IF config.meta THEN customerId ELSE cached
          /\ fetches' = Append(fetches, Fetch(pc, cached, Null,
                               IF config.meta THEN Null ELSE cached, FALSE, NoMsg))
          /\ messages' = IF pc = "done" THEN getDefaultGreeting(now) ELSE messages
          /\ out' = Out(<<>>, <<>>, 0)
    /\ UNCHANGED <<config, unmounted, conversationId, isSending, isOpen, isGameMode, hidden,
                   listening, chans, channel, mountPc, sends, srvConvs,
                   srvCustomers, wire, now>>

\* checkForExistingCustomer emitting customer:updated for every match
checkForExistingCustomerAlwaysUpdating(defaultCustomerId, matchingCustomerId) ==
    IF matchingCustomerId = Null
    THEN [customerId |-> Null, emitted |-> <<>>, ret |-> Null]
    ELSE [customerId |-> matchingCustomerId,
          emitted |-> <<Ev("customer:updated", matchingCustomerId, 0, NoMsg)>>,
          ret |-> matchingCustomerId]

\* checkForExistingCustomer after `await API.findCustomerByExternalId`:
\* the active customer id, what is emitted and the id returned
checkForExistingCustomer(defaultCustomerId, matchingCustomerId) ==
    IF matchingCustomerId = Null
    THEN [customerId |-> Null, emitted |-> <<>>, ret |-> Null]
    ELSE IF matchingCustomerId = defaultCustomerId
    THEN [customerId |-> defaultCustomerId, emitted |-> <<>>, ret |-> defaultCustomerId]
    ELSE [customerId |-> matchingCustomerId,
          emitted |-> <<Ev("customer:updated", matchingCustomerId, 0, NoMsg)>>,
          ret |-> matchingCustomerId]

LookupResults == {Null, CachedA, MatchB}

\* fetchLatestConversation resumed with the result of the external-id lookup
FetchLookup(f, matching) ==
    /\ fetches[f].pc = "lookup"
    /\ LET r == checkForExistingCustomer(fetches[f].cached, matching)
           pc == IF r.ret = Null THEN "done" ELSE "convs"
           mount == fetches[f].mount
       IN /\ customerId' = r.customerId
          /\ messages' = IF r.ret = Null THEN getDefaultGreeting(now) ELSE messages
          /\ fetches' = [fetches EXCEPT ![f] =
                             Fetch(pc, @.cached, matching, r.ret, mount, NoMsg)]
          /\ mountPc' = IF mount /\ pc = "done" THEN "done" ELSE mountPc
          /\ out' = Out(r.emitted \o Loaded(mount, pc), <<>>, 0)
    /\ UNCHANGED <<config, unmounted, conversationId, isSending, isOpen, isGameMode, hidden,
                   listening, chans, channel, timers, sends, srvConvs,
                   srvCustomers, wire, now>>

\* API.findCustomerByExternalId rejects: nothing in fetchLatestConversation
\* catches it, so the call (and componentDidMount awaiting it) ends there
FetchLookupThrows(f) ==
    /\ fetches[f].pc = "lookup"
    /\ fetches' = [fetches EXCEPT ![f].pc = "threw"]
    /\ mountPc' = IF fetches[f].mount THEN "threw" ELSE mountPc
    /\ out' = Out(<<>>, <<>>, 0)
    /\ UNCHANGED <<config, unmounted, messages, customerId, conversationId, isSending, isOpen,
                   isGameMode, hidden, listening, chans, channel, timers, sends,
                   srvConvs, srvCustomers, wire, now>>

\* the first message of the fetched history that is unseen and from an agent
FirstUnseen(msgs) ==
    LET unseen == {i \in DOMAIN msgs : msgs[i].seen_at = 0 /\ msgs[i].user_id # 0}
    IN IF unseen = {} THEN NoMsg
       ELSE msgs[CHOOSE i \in unseen : \A j \in unseen : i <= j]

EmitUnseen(m) ==
    IF m = NoMsg THEN <<>> ELSE <<Ev("messages:unseen", 0, 0, m)>>

\* fetchLatestConversation resumed with the customer's conversations;
\* reversed is the order in which the backend lists the messages
FetchConversations(f, reversed) ==
    /\ fetches[f].pc = "convs"
    /\ LET cust == fetches[f].cust
           mount == fetches[f].mount
           latest == LatestConversation(cust)
       IN IF latest = 0
          THEN /\ messages' = getDefaultGreeting(now)
               /\ chans' = Append(chans, NewChannel("lobby", cust))
               /\ fetches' = [fetches EXCEPT ![f].pc = "done", ![f].unseen = NoMsg]
               /\ mountPc' = IF mount THEN "done" ELSE mountPc
               /\ out' = Out(Loaded(mount, "done"), <<>>, 0)
               /\ UNCHANGED <<conversationId, channel>>
          ELSE LET listed == IF reversed THEN Reverse(srvConvs[latest].messages)
                             ELSE srvConvs[latest].messages
                   formattedMessages == SortByCreatedAt(listed)
                   unseen == FirstUnseen(formattedMessages)
                   pc == IF config.meta THEN "update" ELSE "done"
                   joined == joinConversationChannel(chans, channel, latest, cust)
               IN /\ conversationId' = latest
                  /\ messages' = getDefaultGreeting(now) \o formattedMessages
                  /\ chans' = joined
                  /\ channel' = Len(joined)
                  /\ fetches' = [fetches EXCEPT ![f] =
                                     Fetch(pc, @.cached, @.match, cust, mount, unseen)]
                  /\ mountPc' = IF mount /\ pc = "done" THEN "done" ELSE mountPc
                  /\ out' = Out(<<Ev("conversation:join", cust, latest, NoMsg)>>
                                  \o (IF pc = "done" THEN EmitUnseen(unseen) ELSE <<>>)
                                  \o Loaded(mount, pc),
                               <<>>, 0)
    /\ UNCHANGED <<config, unmounted, customerId, isSending, isOpen, isGameMode, hidden,
                   listening, timers, sends, srvConvs, srvCustomers, wire, now>>

\* API.fetchCustomerConversations rejects: caught and logged
FetchConversationsThrows(f) ==
    /\ fetches[f].pc = "convs"
    /\ fetches' = [fetches EXCEPT ![f].pc = "done", ![f].unseen = NoMsg]
    /\ mountPc' = IF fetches[f].mount THEN "done" ELSE mountPc
    /\ out' = Out(Loaded(fetches[f].mount, "done"), <<>>, 0)
    /\ UNCHANGED <<config, unmounted, messages, customerId, conversationId, isSending, isOpen,
                   isGameMode, hidden, listening, chans, channel, timers, sends,
                   srvConvs, srvCustomers, wire, now>>

\* fetchLatestConversation resumed after `await this.updateExistingCustomer`,
\* which catches its own failure
FetchUpdated(f) ==
    /\ fetches[f].pc = "update"
    /\ fetches' = [fetches EXCEPT ![f].pc = "done", ![f].unseen = NoMsg]
    /\ mountPc' = IF fetches[f].mount THEN "done" ELSE mountPc
    /\ out' = Out(EmitUnseen(fetches[f].unseen) \o Loaded(fetches[f].mount, "done"),
                 <<>>, 0)
    /\ UNCHANGED <<config, unmounted, messages, customerId, conversationId, isSending, isOpen,
                   isGameMode, hidden, listening, chans, channel, timers, sends,
                   srvConvs, srvCustomers, wire, now>>

-----------------------------------------------------------------------------
(* Sending *)

\* a call of handleSendMessage: where it is, its locals sentAt and body, the
\* existingCustomerId it passed on and the customerId it got; a call that
\* returned keeps no locals
Send(pc, sentAt, body, existing, cust) ==
    IF pc = "done"
    THEN [pc |-> pc, sentAt |-> NoDate, body |-> Absent, existing |-> Null,
          cust |-> Null]
    ELSE [pc |-> pc, sentAt |-> sentAt, body |-> body, existing |-> existing,
          cust |-> cust]

\* the body the backend stores for a pushed body: an empty one becomes null
StoredBody(body) == IF body = "" THEN Absent ELSE body

\* the message the backend creates for a pushed 'shout'
Echo(body, sentAt, cust) ==
    Msg(NextMessageId, StoredBody(body), SrvDate(sentAt.t), NextMessageId, 0, 0,
        cust, "none")

\* the backend's store after a message is created in conversation conv
Stored(convs, conv, m) ==
    [convs EXCEPT ![conv].messages = Append(@, m)]

\* the push stamped anew instead of carrying the optimistic entry's sentAt
ShoutPushRestamped(ch, body, sentAt, cust) ==
    <<[event |-> "shout", chan |-> ch,
       message |-> Msg(0, body, IsoDate(sentAt.t + 1), 0, 0, 0, cust, "none")]>>

ShoutPush(ch, body, sentAt, cust) ==
    <<[event |-> "shout", chan |-> ch,
       message |-> Msg(0, body, sentAt, 0, 0, 0, cust, "none")]>>

SentEvent(body, sentAt, cust, conv) ==
    <<Ev("message:sent", cust, conv, Msg(0, body, sentAt, 0, 0, 0, cust, "customer"))>>

\* handleSendMessage(message) up to its first await
handleSendMessage(d) ==
    /\ mountPc # "validate"
    /\ LET isMissingBody == Falsy(d.body) \/ Trim(d.body) = ""
           isMissingAttachments == d.files = 0
           shouldSkipSending == isMissingBody /\ isMissingAttachments
           sentAt == IsoDate(now)
           payload == Msg(0, d.body, sentAt, 0, 0, 0, customerId, "customer")
       IN IF isSending \/ shouldSkipSending
          THEN /\ out' = Out(<<>>, <<>>, 0)
               /\ UNCHANGED <<messages, isGameMode, sends, srvConvs, wire>>
          ELSE IF shouldActivateGameMode(d.body)
          THEN /\ isGameMode' = TRUE
               /\ out' = Out(<<>>, <<>>, 0)
               /\ UNCHANGED <<messages, sends, srvConvs, wire>>
          ELSE /\ Len(sends) < MaxSends
               /\ messages' = Append(messages, payload)
               /\ UNCHANGED isGameMode
               /\ IF customerId = Null \/ conversationId = Null
                  THEN /\ sends' = Append(sends, Send("customer", sentAt, d.body,
                                                      customerId, Null))
                       /\ out' = Out(<<>>, <<>>, 0)
                       /\ UNCHANGED <<srvConvs, wire>>
                  ELSE LET conv == chans[channel].key
                           echo == Echo(d.body, sentAt, customerId)
                       IN /\ sends' = Append(sends, Send("done", sentAt, d.body,
                                                         customerId, customerId))
                          /\ srvConvs' = Stored(srvConvs, conv, echo)
                          /\ wire' = Append(wire, [conv |-> conv, message |-> echo])
                          /\ out' = Out(SentEvent(d.body, sentAt, customerId, conversationId),
                                       ShoutPush(channel, d.body, sentAt, customerId), 0)
    /\ UNCHANGED <<config, unmounted, customerId, conversationId, isSending, isOpen, hidden,
                   listening, chans, channel, mountPc, fetches, timers,
                   srvCustomers, now>>

\* API.createNewCustomer answers with a fresh customer id
FreshCustomer == MatchB + 1 + srvCustomers

\* createOrUpdateCustomer resumed with the answer to its first request:
\* update of the existing customer, or creation when there is none
SendCustomer(s, ok) ==
    /\ sends[s].pc = "customer"
    /\ LET existing == sends[s].existing
       IN IF ~ok
          THEN /\ sends' = [sends EXCEPT ![s].pc = "retry"]
               /\ out' = Out(<<>>, <<>>, 0)
               /\ UNCHANGED srvCustomers
          ELSE IF existing # Null
          THEN /\ sends' = [sends EXCEPT ![s].pc = "conv", ![s].cust = existing]
               /\ out' = Out(<<>>, <<>>, 0)
               /\ UNCHANGED srvCustomers
          ELSE /\ sends' = [sends EXCEPT ![s].pc = "conv", ![s].cust = FreshCustomer]
               /\ srvCustomers' = srvCustomers + 1
               /\ out' = Out(<<Ev("customer:created", FreshCustomer, 0, NoMsg)>>,
                            <<>>, 0)
    /\ UNCHANGED <<config, unmounted, messages, customerId, conversationId, isSending, isOpen,
                   isGameMode, hidden, listening, chans, channel, mountPc, fetches,
                   timers, srvConvs, wire, now>>

\* the retry updating the existing customer again instead of creating one
SendRetryKeepingExisting(s, ok) ==
    /\ sends[s].pc = "retry"
    /\ IF ~ok
       THEN /\ sends' = [sends EXCEPT ![s].pc = "threw"]
            /\ out' = Out(<<>>, <<>>, 0)
            /\ UNCHANGED srvCustomers
       ELSE /\ sends' = [sends EXCEPT ![s].pc = "conv", ![s].cust = sends[s].existing]
            /\ out' = Out(<<>>, <<>>, 0)
            /\ UNCHANGED srvCustomers
    /\ UNCHANGED <<config, unmounted, messages, customerId, conversationId, isSending, isOpen,
                   isGameMode, hidden, listening, chans, channel, mountPc, fetches,
                   timers, srvConvs, wire, now>>

\* createOrUpdateCustomer resumed with the answer to the retry in its catch
SendRetry(s, ok) ==
    /\ sends[s].pc = "retry"
    /\ IF ~ok
       THEN /\ sends' = [sends EXCEPT ![s].pc = "threw"]
            /\ out' = Out(<<>>, <<>>, 0)
            /\ UNCHANGED srvCustomers
       ELSE /\ sends' = [sends EXCEPT ![s].pc = "conv", ![s].cust = FreshCustomer]
            /\ srvCustomers' = srvCustomers + 1
            /\ out' = Out(<<Ev("customer:created", FreshCustomer, 0, NoMsg)>>, <<>>, 0)
    /\ UNCHANGED <<config, unmounted, messages, customerId, conversationId, isSending, isOpen,
                   isGameMode, hidden, listening, chans, channel, mountPc, fetches,
                   timers, srvConvs, wire, now>>

\* API.createNewConversation rejects: handleSendMessage rejects with it
SendConversationThrows(s) ==
    /\ sends[s].pc = "conv"
    /\ sends' = [sends EXCEPT ![s].pc = "threw"]
    /\ out' = Out(<<>>, <<>>, 0)
    /\ UNCHANGED <<config, unmounted, messages, customerId, conversationId, isSending, isOpen,
                   isGameMode, hidden, listening, chans, channel, mountPc, fetches,
                   timers, srvConvs, srvCustomers, wire, now>>

\* initializeNewConversation resumed with the new conversation, and the rest
\* of handleSendMessage: join, push 'shout', emit message:sent
SendConversation(s) ==
    /\ sends[s].pc = "conv"
    /\ LET cust == sends[s].cust
           conv == Len(srvConvs) + 1
           created == Append(srvConvs, [customer |-> cust, messages |-> <<>>])
           joined == joinConversationChannel(chans, channel, conv, cust)
           echo == Echo(sends[s].body, sends[s].sentAt, cust)
       IN /\ customerId' = cust
          /\ conversationId' = conv
          /\ chans' = joined
          /\ channel' = Len(joined)
          /\ timers' = timers \o LobbyTimers(chans, cust)
          /\ srvConvs' = Stored(created, conv, echo)
          /\ wire' = Append(wire, [conv |-> conv, message |-> echo])
          /\ sends' = [sends EXCEPT ![s] = Send("done", NoDate, Absent, 0, 0)]
          /\ out' = Out(<<Ev("conversation:join", cust, conv, NoMsg)>>
                          \o SentEvent(sends[s].body, sends[s].sentAt, cust, conv),
                       ShoutPush(Len(joined), sends[s].body, sends[s].sentAt, cust), 0)
    /\ UNCHANGED <<config, unmounted, messages, isSending, isOpen, isGameMode, hidden,
                   listening, mountPc, fetches, srvCustomers, now>>

-----------------------------------------------------------------------------
(* Receiving and seen state *)

\* handleNewMessage without its `!unsent` test before emitUnseenMessage
handleNewMessageAlwaysUnseen(msgs, message, open, hid) ==
    LET received == <<Ev("message:received", 0, 0, message)>>
        updated == UpdatedMessages(msgs, message)
        marked == markMessagesAsSeen(updated)
    IN IF shouldMarkAsSeen(message, open, hid)
       THEN [messages |-> marked.messages, emitted |-> received \o marked.emitted,
             pushed |-> marked.pushed, marks |-> 1]
       ELSE [messages |-> updated,
             emitted |-> received \o <<Ev("messages:unseen", 0, 0, message)>>,
             pushed |-> <<>>, marks |-> 0]

\* handleNewMessage(message) on the timeline msgs, with the setState callback:
\* the new timeline, what is emitted and pushed, and the calls of
\* markMessagesAsSeen
handleNewMessage(msgs, message, open, hid) ==
    LET received == <<Ev("message:received", 0, 0, message)>>
        unsent == FindUnsent(msgs, message)
        updated == UpdatedMessages(msgs, message)
        marked == markMessagesAsSeen(updated)
    IN IF shouldMarkAsSeen(message, open, hid)
       THEN [messages |-> marked.messages, emitted |-> received \o marked.emitted,
             pushed |-> marked.pushed, marks |-> 1]
       ELSE IF unsent = 0
       THEN [messages |-> updated, emitted |-> received \o EmitUnseen(message),
             pushed |-> <<>>, marks |-> 0]
       ELSE [messages |-> updated, emitted |-> received, pushed |-> <<>>, marks |-> 0]

\* a joined conversation channel of this client on the conversation
Subscribed(conv) ==
    \E i \in DOMAIN chans :
        chans[i].kind = "conversation" /\ chans[i].key = conv /\ chans[i].joined

\* the 'shout' callback of the joined conversation channel
Deliver ==
    /\ wire # <<>>
    /\ Subscribed(Head(wire).conv)
    /\ LET message == Head(wire).message
           r == handleNewMessage(messages, message, isOpen, hidden)
       IN /\ wire' = Tail(wire)
          /\ isGameMode' = FALSE
          /\ messages' = r.messages
          /\ out' = Out(r.emitted, r.pushed, r.marks)
    /\ UNCHANGED <<config, unmounted, customerId, conversationId, isSending, isOpen, hidden,
                   listening, chans, channel, mountPc, fetches, timers, sends,
                   srvConvs, srvCustomers, now>>

\* a broadcast for a conversation whose channel this client has left
DropFrame ==
    /\ wire # <<>>
    /\ ~Subscribed(Head(wire).conv)
    /\ wire' = Tail(wire)
    /\ out' = Out(<<>>, <<>>, 0)
    /\ UNCHANGED <<config, unmounted, messages, customerId, conversationId, isSending, isOpen,
                   isGameMode, hidden, listening, chans, channel, mountPc, fetches,
                   timers, sends, srvConvs, srvCustomers, now>>

\* the messages agents wrote since the page loaded
AgentBody == "c"

RECURSIVE CountAgentMessages(_)
CountAgentMessages(convs) ==
    IF convs = <<>> THEN 0
    ELSE Cardinality({i \in DOMAIN Head(convs).messages :
                         Head(convs).messages[i].body = AgentBody})
         + CountAgentMessages(Tail(convs))

\* an agent writes in a conversation; the backend broadcasts the message to
\* the subscribers of the conversation
AgentMessage(conv, seen) ==
    /\ conv \in DOMAIN srvConvs
    /\ CountAgentMessages(srvConvs) < MaxAgentMsgs
    /\ LET m == Msg(NextMessageId, AgentBody, NoDate, NextMessageId,
                    IF seen THEN now ELSE 0, AgentId, 0, "none")
       IN /\ srvConvs' = Stored(srvConvs, conv, m)
          /\ wire' = IF Subscribed(conv)
                     THEN Append(wire, [conv |-> conv, message |-> m])
                     ELSE wire
          /\ out' = Out(<<>>, <<>>, 0)
    /\ UNCHANGED <<config, unmounted, messages, customerId, conversationId, isSending, isOpen,
                   isGameMode, hidden, listening, chans, channel, mountPc, fetches,
                   timers, sends, srvCustomers, now>>

\* handleVisibilityChange marking as soon as any entry lacks a seen_at
handleVisibilityChangeAnyUnseen(msgs, open, hid) ==
    LET none == [messages |-> msgs, emitted |-> <<>>, pushed |-> <<>>, marks |-> 0]
        marked == markMessagesAsSeen(msgs)
    IN IF hid THEN none
       ELSE IF \E i \in DOMAIN msgs : msgs[i].seen_at = 0
       THEN [messages |-> marked.messages, emitted |-> marked.emitted,
             pushed |-> marked.pushed, marks |-> 1]
       ELSE none

\* handleVisibilityChange with this.state.isOpen = open
handleVisibilityChange(msgs, open, hid) ==
    LET none == [messages |-> msgs, emitted |-> <<>>, pushed |-> <<>>, marks |-> 0]
        marked == markMessagesAsSeen(msgs)
    IN IF hid THEN none
       ELSE IF \E i \in DOMAIN msgs : shouldMarkAsSeen(msgs[i], open, hid)
       THEN [messages |-> marked.messages, emitted |-> marked.emitted,
             pushed |-> marked.pushed, marks |-> 1]
       ELSE none

\* the page becomes hidden or visible; the listener added by
\* addVisibilityEventListener runs handleVisibilityChange
VisibilityChange ==
    /\ hidden' = ~hidden
    /\ LET r == IF listening
                THEN handleVisibilityChange(messages, isOpen, ~hidden)
                ELSE [messages |-> messages, emitted |-> <<>>, pushed |-> <<>>,
                      marks |-> 0]
       IN /\ messages' = r.messages
          /\ out' = Out(r.emitted, r.pushed, r.marks)
    /\ UNCHANGED <<config, unmounted, customerId, conversationId, isSending, isOpen, isGameMode,
                   listening, chans, channel, mountPc, fetches, timers, sends,
                   srvConvs, srvCustomers, wire, now>>

\* the host page's papercups:toggle command
handleToggleDisplay(open) ==
    /\ listening
    /\ isOpen' = open
    /\ LET r == handleVisibilityChange(messages, open, hidden)
       IN /\ messages' = r.messages
          /\ out' = Out(r.emitted, r.pushed, r.marks)
    /\ UNCHANGED <<config, unmounted, customerId, conversationId, isSending, isGameMode, hidden,
                   listening, chans, channel, mountPc, fetches, timers, sends,
                   srvConvs, srvCustomers, wire, now>>

\* time passes
Tick ==
    /\ now < MaxTime
    /\ now' = now + 1
    /\ out' = Out(<<>>, <<>>, 0)
    /\ UNCHANGED <<config, unmounted, messages, customerId, conversationId, isSending, isOpen,
                   isGameMode, hidden, listening, chans, channel, mountPc, fetches,
                   timers, sends, srvConvs, srvCustomers, wire>>

-----------------------------------------------------------------------------
(* Specifications *)

TextDraft == [body |-> "a", files |-> 0]
FileDraft == [body |-> "", files |-> 1]
BlankDraft == [body |-> " ", files |-> 0]

\* Identity, conversations and channels: every configuration and backend
\* store, every backend request may fail, the lobby timers run, sends overlap.
\* The widget stays closed and the page visible, and no agent writes: those
\* handlers read and write the timeline's seen state only.
Next ==
    \/ \E valid \in BOOLEAN : MountValidate(valid)
    \/ TimerFire
    \/ \E f \in DOMAIN fetches, m \in LookupResults : FetchLookup(f, m)
    \/ \E f \in DOMAIN fetches : FetchLookupThrows(f)
    \/ \E f \in DOMAIN fetches, r \in BOOLEAN : FetchConversations(f, r)
    \/ \E f \in DOMAIN fetches : FetchConversationsThrows(f)
    \/ \E f \in DOMAIN fetches : FetchUpdated(f)
    \/ handleSendMessage(TextDraft)
    \/ \E s \in DOMAIN sends, ok \in BOOLEAN : SendCustomer(s, ok)
    \/ \E s \in DOMAIN sends, ok \in BOOLEAN : SendRetry(s, ok)
    \/ \E s \in DOMAIN sends : SendConversation(s)
    \/ \E s \in DOMAIN sends : SendConversationThrows(s)
    \/ Deliver
    \/ DropFrame
    \/ Tick

Spec == Init /\ [][Next]_vars

\* The timeline and its seen state: sends with and without a body, echoes,
\* agent messages, the widget opening and closing, the page hiding and
\* showing.  The page loads without identity metadata, either with no cached
\* customer or with a cached customer who has a conversation, so that no
\* lobby is joined, and the backend answers every request.
SeenInit ==
    /\ Init
    /\ ~config.meta
    /\ config.greeting
    /\ \/ config.cached = Null /\ srvConvs = <<>>
       \/ /\ config.cached = CachedA
          /\ srvConvs = <<[customer |-> CachedA,
                           messages |-> <<PastCustomerMsg(CachedA), UnseenAgentMsg(2)>>]>>

SeenNext ==
    \/ \E valid \in BOOLEAN : MountValidate(valid)
    \/ \E f \in DOMAIN fetches, r \in BOOLEAN : FetchConversations(f, r)
    \/ \E d \in {TextDraft, FileDraft, BlankDraft} : handleSendMessage(d)
    \/ \E s \in DOMAIN sends : SendCustomer(s, TRUE)
    \/ \E s \in DOMAIN sends : SendConversation(s)
    \/ Deliver
    \/ DropFrame
    \/ \E c \in DOMAIN srvConvs, seen \in BOOLEAN : AgentMessage(c, seen)
    \/ VisibilityChange
    \/ \E open \in BOOLEAN : handleToggleDisplay(open)
    \/ Tick

SeenSpec == SeenInit /\ [][SeenNext]_vars

-----------------------------------------------------------------------------
(* Properties of receive and of the seen state *)

\* a step in which the joined conversation channel hands its next broadcast
\* to handleNewMessage, and the message it hands over
ReceiveStep == wire # <<>> /\ wire' = Tail(wire) /\ Subscribed(Head(wire).conv)
Incoming == Head(wire).message

\* the state right after handleNewMessage(m): it emits message:received first
JustReceived == out.emitted # <<>> /\ out.emitted[1].event = "message:received"
Received == out.emitted[1].message

EmptyOrAbsent(body) == body \in {"", Absent}

\* an optimistic entry whose sentAt is date-equal to the message's and whose
\* body equals the message's, empty and absent being equal
MatchesOptimistic(entry, m) ==
    /\ entry.created_at = 0
    /\ entry.sent_at.t = m.sent_at.t
    /\ (entry.body = m.body \/ (EmptyOrAbsent(entry.body) /\ EmptyOrAbsent(m.body)))

HasOptimisticMatch(msgs, m) == \E i \in DOMAIN msgs : MatchesOptimistic(msgs[i], m)

\* the events of one kind among those a handler emitted
EventsOf(o, kind) == SelectSeq(o.emitted, LAMBDA e : e.event = kind)
PushesOf(o, kind) == SelectSeq(o.pushed, LAMBDA e : e.event = kind)

\* the four conditions of the seen-worthy rule
SeenWorthy(m, open, hid) == m.user_id # 0 /\ m.seen_at = 0 /\ open /\ ~hid

\* C1: a receive leaves the timeline's length unchanged when the timeline
\* holds an optimistic entry matching the incoming message by date-equal
\* sentAt and by body (empty and absent equal), and makes it exactly one
\* longer when it holds none.
C1_CollapseLength ==
    [][ReceiveStep =>
         Len(messages') = Len(messages)
                          + (IF HasOptimisticMatch(messages, Incoming) THEN 0 ELSE 1)]_vars

\* a receive has just reconciled the echo of a send without body: the
\* optimistic entry had the body "", the echo has none
C1_Witness ==
    /\ JustReceived
    /\ Len(out.emitted) = 1
    /\ Received.user_id = 0
    /\ Received.body = Absent
    /\ \E i \in DOMAIN messages : messages[i] = Received

\* C2: a receive that finds a matching optimistic entry replaces that one
\* entry by the server message and leaves every other entry as it was, also
\* in a timeline with several entries of the same sentAt.
C2_ReplacesSingleEntry ==
    [][(ReceiveStep /\ HasOptimisticMatch(messages, Incoming)) =>
         \E k \in DOMAIN messages :
            /\ MatchesOptimistic(messages[k], Incoming)
            /\ messages' = [messages EXCEPT ![k] = Incoming]]_vars

\* an entry the local customer contributed: an optimistic entry or the
\* server's record of a customer message
FromCustomer(m) == m.user_id = 0 /\ m.customer_id # BotId

\* C3: the timeline never holds two entries of the local customer with the
\* same (sentAt, body) pair.
C3_OneEntryPerSentAtAndBody ==
    \A i, j \in DOMAIN messages :
        (i < j /\ FromCustomer(messages[i]) /\ FromCustomer(messages[j]))
        => ~(/\ messages[i].sent_at.t = messages[j].sent_at.t
             /\ (\/ messages[i].body = messages[j].body
                 \/ EmptyOrAbsent(messages[i].body) /\ EmptyOrAbsent(messages[j].body)))

\* C7: a receive calls mark-all-seen exactly once when the message has a
\* userId and no seenAt, the widget is open and the page is visible, and not
\* at all when one of the four fails; unless the call is cut short for want of
\* a channel, customer or conversation it pushes and emits one messages:seen.
C7_SeenWorthyRule ==
    JustReceived =>
        IF SeenWorthy(Received, isOpen, hidden)
        THEN /\ out.marks = 1
             /\ (channel # 0 /\ customerId # Null /\ conversationId # Null)
                => /\ Len(EventsOf(out, "messages:seen")) = 1
                   /\ Len(PushesOf(out, "messages:seen")) = 1
        ELSE /\ out.marks = 0
             /\ EventsOf(out, "messages:seen") = <<>>
             /\ PushesOf(out, "messages:seen") = <<>>

\* a receive of a seen-worthy agent message has just marked the timeline seen
C7_Witness ==
    /\ JustReceived
    /\ SeenWorthy(Received, isOpen, hidden)
    /\ out.marks = 1
    /\ Len(EventsOf(out, "messages:seen")) = 1

\* the same entry but for its seenAt
SameButSeenAt(a, b) == [a EXCEPT !.seen_at = 0] = [b EXCEPT !.seen_at = 0]

\* C8: a call of mark-all-seen leaves every seenAt that was set as it is and
\* stamps the entries that had none, and a second call right after it, at
\* whatever time, changes nothing.
C8_MarkSeenIdempotent ==
    [][(out'.marks = 1 /\ PushesOf(out', "messages:seen") # <<>>) =>
         /\ \A i \in DOMAIN messages :
               (i \in DOMAIN messages' /\ SameButSeenAt(messages[i], messages'[i])
                  /\ messages[i].seen_at # 0)
               => messages'[i].seen_at = messages[i].seen_at
         /\ \A i \in DOMAIN messages' : messages'[i].seen_at # 0
         /\ \A t \in 1..MaxTime : StampSeen(messages', t) = messages']_vars

\* mark-all-seen has just run at time 2 on a timeline holding an agent
\* message that an earlier call stamped at time 1
C8_Witness ==
    /\ out.marks = 1
    /\ PushesOf(out, "messages:seen") # <<>>
    /\ now = 2
    /\ \E i, j \in DOMAIN messages :
          /\ messages[i].user_id # 0 /\ messages[i].body = "b" /\ messages[i].seen_at = 1
          /\ messages[j].seen_at = 2

\* C9: a receive of a message that is not seen-worthy emits exactly one
\* messages:unseen, carrying the message, and marks nothing seen when the
\* message was appended; it emits no messages:unseen when the message was
\* reconciled with an optimistic entry.
C9_UnseenNotification ==
    [][(ReceiveStep /\ ~SeenWorthy(Incoming, isOpen, hidden)) =>
         IF HasOptimisticMatch(messages, Incoming)
         THEN EventsOf(out', "messages:unseen") = <<>>
         ELSE /\ EventsOf(out', "messages:unseen")
                   = <<Ev("messages:unseen", 0, 0, Incoming)>>
              /\ out'.marks = 0
              /\ EventsOf(out', "messages:seen") = <<>>
              /\ PushesOf(out', "messages:seen") = <<>>
              /\ \A i \in DOMAIN messages : messages'[i] = messages[i]]_vars

\* an agent message has just arrived while the widget is closed: it is
\* announced as unseen and nothing is marked seen
C9_Witness ==
    /\ JustReceived
    /\ Received.user_id # 0
    /\ Received.seen_at = 0
    /\ ~isOpen
    /\ EventsOf(out, "messages:unseen") = <<Ev("messages:unseen", 0, 0, Received)>>
    /\ out.marks = 0
    /\ \E i \in DOMAIN messages : messages[i] = Received /\ messages[i].seen_at = 0

-----------------------------------------------------------------------------
(* Properties of the lifecycle: fetches, sends and channels *)

\* C4: no two entries of the timeline carry the same server-assigned id,
\* whatever the interleaving of the initial fetch, the lobby's re-fetches,
\* the joins and the inbound messages.
C4_NoDuplicateServerIds ==
    \A i, j \in DOMAIN messages :
        (i < j /\ messages[i].id # 0) => messages[i].id # messages[j].id

\* a send that has not finished: it awaits its customer or its conversation
InFlight(send) == send.pc \in {"customer", "retry", "conv"}

\* C5: while a send is in flight a further send call is a no-op: it appends
\* nothing to the timeline, starts no customer or conversation creation,
\* pushes nothing and emits no message:sent.
C5_InFlightSendRejects ==
    [][((\E s \in DOMAIN sends : InFlight(sends[s])) /\ handleSendMessage(TextDraft)) =>
         /\ messages' = messages
         /\ sends' = sends
         /\ out'.pushed = <<>>
         /\ EventsOf(out', "message:sent") = <<>>]_vars

ActiveConversationChannels ==
    {i \in DOMAIN chans : chans[i].kind = "conversation" /\ chans[i].joined}

\* C6: at most one conversation channel is joined at any time, and it is
\* the one the widget holds as its channel.
C6_OneConversationChannel ==
    /\ Cardinality(ActiveConversationChannels) <= 1
    /\ \A i \in ActiveConversationChannels : i = channel

\* a second conversation channel was joined and the first one was left
C6_Witness ==
    /\ Cardinality(ActiveConversationChannels) = 1
    /\ \E i \in DOMAIN chans :
          /\ chans[i].kind = "conversation"
          /\ ~chans[i].joined
          /\ i < channel

\* a step in which fetch f gets the answer of the lookup by external id
LookupStep(f) ==
    /\ f \in DOMAIN fetches
    /\ fetches[f].pc = "lookup"
    /\ fetches'[f].pc \in {"convs", "done"}

\* C10: resolution with metadata and the cached id A: when the lookup
\* answers B it returns B, B becomes the active customer id and exactly one
\* customer:updated with B is emitted; when the lookup answers A it returns
\* A and emits no customer:updated.
C10_IdentityRebind ==
    [][\A f \in 1..MaxFetches :
          (LookupStep(f) /\ fetches[f].cached = CachedA) =>
             /\ fetches'[f].match = MatchB =>
                   /\ fetches'[f].cust = MatchB
                   /\ customerId' = MatchB
                   /\ EventsOf(out', "customer:updated")
                         = <<Ev("customer:updated", MatchB, 0, NoMsg)>>
             /\ fetches'[f].match = CachedA =>
                   /\ fetches'[f].cust = CachedA
                   /\ customerId' = CachedA
                   /\ EventsOf(out', "customer:updated") = <<>>]_vars

\* the lookup has just answered B to a resolution that had A cached
C10_Witness ==
    /\ \E f \in DOMAIN fetches :
          /\ fetches[f].pc = "convs"
          /\ fetches[f].cached = CachedA
          /\ fetches[f].match = MatchB
          /\ fetches[f].cust = MatchB
    /\ customerId = MatchB
    /\ EventsOf(out, "customer:updated") = <<Ev("customer:updated", MatchB, 0, NoMsg)>>

-----------------------------------------------------------------------------
(* Properties of initialization *)

\* the timeline holding the configured greeting and nothing else
GreetingOnly(msgs) ==
    IF config.greeting
    THEN Len(msgs) = 1 /\ msgs[1].type = "bot" /\ msgs[1].body = GreetingBody
    ELSE msgs = <<>>

\* C11: when the lookup by external id or the fetch of the conversations
\* fails during initialization (and the user has sent nothing), the timeline
\* is left greeting-only: the configured greeting, or empty without one.
C11_FailureLeavesGreetingOnly ==
    [][\A f \in 1..MaxFetches :
          (/\ f \in DOMAIN fetches
           /\ fetches[f].mount
           /\ sends = <<>>
           /\ FetchLookupThrows(f) \/ FetchConversationsThrows(f))
          => GreetingOnly(messages')]_vars

\* C12: componentDidMount never ends by an uncaught backend error, which
\* would leave chat:loaded unemitted.
C12_InitializationCompletes == mountPc # "threw"

-----------------------------------------------------------------------------
(* Properties of a send that creates the conversation *)

\* C13: a failed customer create/update is retried, once, by a customer
\* creation that ignores the existing customer id; when the retry succeeds
\* the send goes on with the created customer; when it fails the send ends
\* there: nothing is pushed, no message:sent is emitted and the timeline,
\* with the optimistic entry, is left as it is.
C13_OneRetryThenPropagate ==
    [][\A s \in 1..MaxSends :
          (s \in DOMAIN sends /\ s \in DOMAIN sends') =>
             /\ (sends[s].pc = "customer" /\ sends'[s].pc \notin {"customer", "conv"})
                   => /\ sends'[s].pc = "retry"
                      /\ messages' = messages
                      /\ srvCustomers' = srvCustomers
             /\ (sends[s].pc # "retry" /\ sends'[s].pc = "retry")
                   => sends[s].pc = "customer"
             /\ (sends[s].pc = "retry" /\ sends'[s].pc = "conv")
                   => /\ sends'[s].cust = FreshCustomer
                      /\ sends'[s].cust # sends[s].existing
                      /\ srvCustomers' = srvCustomers + 1
                      /\ EventsOf(out', "customer:created")
                            = <<Ev("customer:created", FreshCustomer, 0, NoMsg)>>
             /\ (sends[s].pc = "retry" /\ sends'[s].pc \notin {"retry", "conv"})
                   => /\ sends'[s].pc = "threw"
                      /\ out'.pushed = <<>>
                      /\ EventsOf(out', "message:sent") = <<>>
                      /\ messages' = messages
                      /\ wire' = wire
                      /\ srvConvs' = srvConvs
             /\ sends[s].pc = "threw" => sends'[s] = sends[s]]_vars

\* of two sends of a cached customer whose update failed, one goes on with
\* the customer its retry created and the other ended with the retry's
\* failure, its optimistic entry still in the timeline
C13_Witness ==
    \E s, t \in DOMAIN sends :
        /\ sends[s].pc = "conv"
        /\ sends[s].existing = CachedA
        /\ sends[s].cust > MatchB
        /\ sends[t].pc = "threw"
        /\ sends[t].existing = CachedA
        /\ sends[t].cust = Null
        /\ \E i \in DOMAIN messages :
              messages[i].created_at = 0 /\ messages[i].sent_at = sends[t].sentAt

\* the 'shout' pushes and message:sent events of a handler's output
Shouts(o) == PushesOf(o, "shout")
SentEvents(o) == EventsOf(o, "message:sent")

\* C14: a send accepted while there is no conversation puts its optimistic
\* entry (sentAt T, type customer) in the timeline at once and pushes and
\* emits nothing then; the push and message:sent come in the step that ends
\* the creation, when the customer and the conversation exist and the
\* conversation's channel is joined, and both carry the sentAt T.
C14_PushAfterCreation ==
    [][/\ (Len(sends') = Len(sends) + 1 /\ InFlight(sends'[Len(sends')]))
          => /\ Len(messages') = Len(messages) + 1
             /\ messages'[Len(messages')].sent_at = sends'[Len(sends')].sentAt
             /\ messages'[Len(messages')].sent_at = IsoDate(now)
             /\ messages'[Len(messages')].type = "customer"
             /\ messages'[Len(messages')].created_at = 0
             /\ Shouts(out') = <<>>
             /\ SentEvents(out') = <<>>
       /\ \A s \in DOMAIN sends :
             InFlight(sends[s]) =>
                IF sends'[s].pc = "done"
                THEN /\ customerId' = sends[s].cust
                     /\ customerId' # Null
                     /\ conversationId' \in DOMAIN srvConvs'
                     /\ srvConvs'[conversationId'].customer = customerId'
                     /\ channel' \in DOMAIN chans'
                     /\ chans'[channel'].kind = "conversation"
                     /\ chans'[channel'].key = conversationId'
                     /\ chans'[channel'].joined
                     /\ Len(Shouts(out')) = 1
                     /\ Shouts(out')[1].chan = channel'
                     /\ Shouts(out')[1].message.sent_at = sends[s].sentAt
                     /\ Len(SentEvents(out')) = 1
                     /\ SentEvents(out')[1].message.sent_at = sends[s].sentAt
                     /\ SentEvents(out')[1].conversationId = conversationId'
                ELSE (\A t \in DOMAIN sends : InFlight(sends[t]) => sends'[t].pc # "done")
                     => (Len(sends') = Len(sends)
                         => Shouts(out') = <<>> /\ SentEvents(out') = <<>>)]_vars

\* a send has just created its conversation: the push and message:sent carry
\* the sentAt of the optimistic entry, which is in the timeline
C14_Witness ==
    /\ Len(Shouts(out)) = 1
    /\ Len(SentEvents(out)) = 1
    /\ EventsOf(out, "conversation:join") # <<>>
    /\ Shouts(out)[1].message.sent_at = SentEvents(out)[1].message.sent_at
    /\ chans[Shouts(out)[1].chan].key = conversationId
    /\ \E i \in DOMAIN messages :
          /\ messages[i].created_at = 0
          /\ messages[i].type = "customer"
          /\ messages[i].sent_at = Shouts(out)[1].message.sent_at

-----------------------------------------------------------------------------
(* The lobby *)

\* A cached customer without conversation and without identity metadata:
\* the page loads, the lobby is joined, the customer's sends create
\* conversations, the lobby's timers run.  The timers fire and the backend
\* answers the fetch of the conversations, with the conversations or with a
\* failure.
LobbyInit ==
    /\ Init
    /\ config.cached = CachedA
    /\ ~config.meta
    /\ srvConvs = <<>>

AnswerConversations(f) ==
    /\ f \in DOMAIN fetches
    /\ \/ \E r \in BOOLEAN : FetchConversations(f, r)
       \/ FetchConversationsThrows(f)

LobbyNext ==
    \/ \E valid \in BOOLEAN : MountValidate(valid)
    \/ TimerFire
    \/ \E f \in DOMAIN fetches, r \in BOOLEAN : FetchConversations(f, r)
    \/ \E f \in DOMAIN fetches : FetchConversationsThrows(f)
    \/ handleSendMessage(TextDraft)
    \/ \E s \in DOMAIN sends : SendCustomer(s, TRUE)
    \/ \E s \in DOMAIN sends : SendConversation(s)
    \/ Deliver
    \/ DropFrame
    \/ Tick

LobbySpec ==
    /\ LobbyInit
    /\ [][LobbyNext]_vars
    /\ WF_vars(TimerFire)
    /\ \A f \in 1..MaxFetches : WF_vars(AnswerConversations(f))

\* the joined lobby channels of a customer
JoinedLobbies(chs, cust) ==
    {i \in DOMAIN chs : chs[i].kind = "lobby" /\ chs[i].key = cust /\ chs[i].joined}

\* the conversations of a customer in the backend
ConversationsOf(cust) == {c \in DOMAIN srvConvs : srvConvs[c].customer = cust}

\* the steps of the lobby's re-fetch: a conversation created for a customer
\* schedules one callback per joined lobby of the customer and starts no
\* fetch; a fetch other than the initial one starts from a callback
\* scheduled in an earlier step; and a re-fetch that is answered with the
\* customer's conversations makes the latest the active one, installs the
\* greeting and the conversation's messages in the order of their
\* created_at, and joins its channel
RefetchSteps ==
    /\ Len(srvConvs') > Len(srvConvs)
          => /\ Len(timers') = Len(timers)
                   + Cardinality(JoinedLobbies(chans, srvConvs'[Len(srvConvs')].customer))
             /\ fetches' = fetches
    /\ Len(timers') > Len(timers) => fetches' = fetches
    /\ (fetches # <<>> /\ Len(fetches') > Len(fetches))
          => /\ timers # <<>>
             /\ timers' = Tail(timers)
             /\ ~fetches'[Len(fetches')].mount
             /\ fetches'[Len(fetches')].cached = Head(timers)
    /\ \A f \in DOMAIN fetches :
          (/\ ~fetches[f].mount
           /\ ConversationsOf(fetches[f].cust) # {}
           /\ \E r \in BOOLEAN : FetchConversations(f, r))
          => LET latest == CHOOSE c \in ConversationsOf(fetches[f].cust) :
                              \A d \in ConversationsOf(fetches[f].cust) : d <= c
                 greeting == IF config.greeting THEN 1 ELSE 0
             IN /\ conversationId' = latest
                /\ chans'[channel'].kind = "conversation"
                /\ chans'[channel'].key = latest
                /\ chans'[channel'].joined
                /\ Len(messages') = greeting + Len(srvConvs[latest].messages)
                /\ \A i \in DOMAIN srvConvs[latest].messages :
                      \E j \in DOMAIN messages' :
                          j > greeting /\ messages'[j] = srvConvs[latest].messages[i]
                /\ \A i, j \in DOMAIN messages' :
                      (greeting < i /\ i < j)
                      => messages'[i].created_at <= messages'[j].created_at

\* C15: from a cached customer without conversation, a conversation:created
\* on the lobby schedules the re-fetch for later and never runs it at once;
\* the scheduled re-fetch eventually runs and is answered; and when it is
\* answered with the new conversation, that conversation becomes the active
\* one, its messages are installed and its channel is joined.
C15_LobbyRefetch ==
    /\ [][RefetchSteps]_vars
    /\ \A f \in 2..MaxFetches :
          (Len(fetches) = f - 1 /\ timers # <<>>)
             ~> (Len(fetches) >= f /\ fetches[f].pc = "done")

\* the lobby's re-fetch has just made the conversation created by a send
\* the active one, after the greeting-only timeline with the lobby joined
C15_Witness ==
    /\ Len(fetches) = 2
    /\ fetches[1].mount /\ fetches[1].cached = CachedA
    /\ ~fetches[2].mount /\ fetches[2].pc = "done"
    /\ JoinedLobbies(chans, CachedA) # {}
    /\ EventsOf(out, "conversation:join") # <<>>
    /\ conversationId \in ConversationsOf(CachedA)
    /\ chans[channel].key = conversationId /\ chans[channel].joined
    /\ \E i \in DOMAIN messages : messages[i].id # 0

\* C16: whenever a conversation is active (its id is set and its channel is
\* joined), no lobby channel is joined.
C16_LobbyOnlyWithoutConversation ==
    (/\ conversationId # Null
     /\ channel \in DOMAIN chans
     /\ chans[channel].kind = "conversation"
     /\ chans[channel].key = conversationId
     /\ chans[channel].joined)
    => \A i \in DOMAIN chans : ~(chans[i].kind = "lobby" /\ chans[i].joined)

\* initialization has ended, its identity resolution gave no customer id,
\* and the user has sent nothing yet
EndedWithoutCustomer ==
    /\ mountPc = "done"
    /\ fetches[1].mount
    /\ fetches[1].cust = Null
    /\ sends = <<>>

\* C17: when identity resolution gives no customer id, initialization
\* installs the greeting-only timeline and stops: until the user sends a
\* message there is no customer, no conversation, and neither a conversation
\* channel nor a lobby channel.
C17_NoCustomerNoChannel ==
    EndedWithoutCustomer =>
        /\ GreetingOnly(messages)
        /\ customerId = Null
        /\ conversationId = Null
        /\ channel = 0
        /\ \A i \in DOMAIN chans : chans[i].kind \notin {"conversation", "lobby"}
        /\ timers = <<>>

\* the page loaded with a greeting configured and the lookup by external id
\* found no customer: the timeline is the one bot message
C17_Witness ==
    /\ EndedWithoutCustomer
    /\ config.greeting
    /\ config.meta
    /\ Len(messages) = 1
    /\ messages[1].body = GreetingBody
    /\ messages[1].type = "bot"
    /\ Len(chans) = 1
    /\ chans[1].kind = "room"

-----------------------------------------------------------------------------
(* Teardown *)

\* componentWillUnmount: leave this.channel if there is one and call every
\* unsubscribe function of this.subscriptions
componentWillUnmount ==
    /\ ~unmounted
    /\ unmounted' = TRUE
    /\ chans' = IF channel # 0 THEN [chans EXCEPT ![channel].joined = FALSE]
                ELSE chans
    /\ listening' = FALSE
    /\ out' = Out(<<>>, <<>>, 0)
    /\ UNCHANGED <<config, messages, customerId, conversationId, isSending, isOpen,
                   isGameMode, hidden, channel, mountPc, fetches, timers, sends,
                   srvConvs, srvCustomers, wire, now>>

\* The widget of LobbySpec, unmounted at any moment.  The component is
\* followed up to its teardown: what its pending requests and timers do
\* to an unmounted component is left out.
TeardownNext ==
    \/ componentWillUnmount
    \/ ~unmounted /\ \E valid \in BOOLEAN : MountValidate(valid)
    \/ ~unmounted /\ TimerFire
    \/ ~unmounted /\ \E f \in DOMAIN fetches, r \in BOOLEAN : FetchConversations(f, r)
    \/ ~unmounted /\ \E f \in DOMAIN fetches : FetchConversationsThrows(f)
    \/ ~unmounted /\ handleSendMessage(TextDraft)
    \/ ~unmounted /\ \E s \in DOMAIN sends : SendCustomer(s, TRUE)
    \/ ~unmounted /\ \E s \in DOMAIN sends : SendConversation(s)
    \/ ~unmounted /\ Deliver
    \/ ~unmounted /\ DropFrame
    \/ ~unmounted /\ Tick

TeardownSpec == LobbyInit /\ [][TeardownNext]_vars

\* C18: after teardown no channel is joined and no listener is registered,
\* also when a lobby timer or a backend request was pending at teardown.
C18_TeardownReleasesAll ==
    unmounted =>
        /\ \A i \in DOMAIN chans : ~chans[i].joined
        /\ ~listening

-----------------------------------------------------------------------------
(* The timeline as a whole *)

\* the same entry but for its seenAt and, for the greeting, the time of its
\* creation
SameEntry(a, b) ==
    IF a.type = "bot"
    THEN [a EXCEPT !.seen_at = 0, !.created_at = 0]
            = [b EXCEPT !.seen_at = 0, !.created_at = 0]
    ELSE SameButSeenAt(a, b)

\* C19: once initialization has installed the timeline, every step keeps
\* every entry at its position, as it was or, for an optimistic entry,
\* replaced by the server's message of the same sentAt and body; entries
\* are only added at the end.
C19_AppendOnlyButCollapse ==
    [][mountPc = "done" =>
         /\ Len(messages') >= Len(messages)
         /\ \A i \in DOMAIN messages :
               \/ SameEntry(messages[i], messages'[i])
               \/ /\ MatchesOptimistic(messages[i], messages'[i])
                  /\ messages'[i].id # 0]_vars

-----------------------------------------------------------------------------
(* Seen state on showing the widget *)

\* a conversation is joined: the widget has its customer, its conversation
\* and the conversation's channel
ConversationJoined ==
    /\ customerId # Null
    /\ conversationId # Null
    /\ channel \in DOMAIN chans
    /\ chans[channel].joined

\* C20: when a visibility change or a toggle leaves the page visible and the
\* widget open, the timeline holds an unseen agent message and a
\* conversation is joined, every entry has a seenAt afterwards (those that
\* had one keep it, the others get the current time), one messages:seen is
\* pushed and one is emitted; in every other case the handler stamps,
\* pushes and emits nothing.
C20_ShowingMarksSeen ==
    [][(VisibilityChange \/ \E open \in BOOLEAN : handleToggleDisplay(open)) =>
         IF /\ listening
            /\ ~hidden'
            /\ isOpen'
            /\ \E i \in DOMAIN messages :
                  messages[i].user_id # 0 /\ messages[i].seen_at = 0
            /\ ConversationJoined
         THEN /\ Len(messages') = Len(messages)
              /\ \A i \in DOMAIN messages :
                    /\ SameButSeenAt(messages[i], messages'[i])
                    /\ messages'[i].seen_at
                          = IF messages[i].seen_at # 0 THEN messages[i].seen_at ELSE now
              /\ out'.pushed = <<[event |-> "messages:seen", chan |-> channel,
                                  message |-> NoMsg]>>
              /\ Len(EventsOf(out', "messages:seen")) = 1
              /\ Len(out'.emitted) = 1
         ELSE /\ messages' = messages
              /\ out'.pushed = <<>>
              /\ out'.emitted = <<>>]_vars

\* the widget has just been shown with an unseen agent message in its
\* timeline: the message got its seenAt and messages:seen went out
C20_Witness ==
    /\ out.marks = 1
    /\ Len(out.emitted) = 1
    /\ out.emitted[1].event = "messages:seen"
    /\ Len(PushesOf(out, "messages:seen")) = 1
    /\ isOpen /\ ~hidden
    /\ \A i \in DOMAIN messages : messages[i].seen_at # 0
    /\ \E i \in DOMAIN messages : messages[i].user_id # 0 /\ messages[i].seen_at = now
    /\ \E i \in DOMAIN messages : messages[i].seen_at # now

-----------------------------------------------------------------------------
(* Drafts that are not sent *)

GameDraft == [body |-> GameBody, files |-> 0]
NoBodyDraft == [body |-> Absent, files |-> 0]

\* The widget of a cached customer without conversation, given every kind
\* of draft: a text, an attachment without body, whitespace, no body at
\* all, and the game-mode phrase.
GameNext ==
    \/ \E valid \in BOOLEAN : MountValidate(valid)
    \/ \E f \in DOMAIN fetches, r \in BOOLEAN : FetchConversations(f, r)
    \/ \E d \in {TextDraft, FileDraft, BlankDraft, NoBodyDraft, GameDraft} :
          handleSendMessage(d)
    \/ \E s \in DOMAIN sends : SendCustomer(s, TRUE)
    \/ \E s \in DOMAIN sends : SendConversation(s)
    \/ Deliver
    \/ DropFrame

GameSpec == LobbyInit /\ [][GameNext]_vars

\* C21: a send of the game-mode phrase sets the game-mode flag and nothing
\* else: the timeline, the customer and conversation ids, the channels and
\* the backend stay as they are, nothing is pushed or emitted; a send with
\* neither a non-whitespace body nor attachments changes nothing, the flag
\* included.
C21_GameModeAndEmptySends ==
    [][/\ handleSendMessage(GameDraft)
          => /\ isGameMode'
             /\ UNCHANGED <<messages, customerId, conversationId, chans, channel,
                            sends, srvConvs, srvCustomers, wire, timers, fetches>>
             /\ out'.pushed = <<>>
             /\ out'.emitted = <<>>
       /\ (handleSendMessage(BlankDraft) \/ handleSendMessage(NoBodyDraft))
          => /\ UNCHANGED <<messages, customerId, conversationId, chans, channel,
                            sends, srvConvs, srvCustomers, wire, timers, fetches,
                            isGameMode, isSending, isOpen>>
             /\ out'.pushed = <<>>
             /\ out'.emitted = <<>>]_vars

\* the game-mode phrase was sent in a conversation: the flag is set, the
\* timeline of the conversation is as it was and nothing went out
C21_Witness ==
    /\ isGameMode
    /\ conversationId # Null
    /\ messages # <<>>
    /\ sends # <<>>
    /\ wire = <<>>
    /\ out = Out(<<>>, <<>>, 0)

-----------------------------------------------------------------------------
(* Overlapping sends, seen state per slot, channel and conversation id *)

\* C22: the sends started without a conversation create at most one
\* customer and at most one conversation between them.
C22_OneCustomerOneConversation ==
    /\ srvCustomers <= 1
    /\ Len(srvConvs) <= 1

\* C23: after initialization a timeline position whose entry has a seenAt
\* keeps an entry with a seenAt in every step: no send, receive or
\* mark-all-seen clears it.
C23_SeenMonotonicPerSlot ==
    [][mountPc = "done" =>
         \A i \in DOMAIN messages :
            messages[i].seen_at # 0
            => (i \in DOMAIN messages' /\ messages'[i].seen_at # 0)]_vars

\* C24: every joined conversation channel is the channel of the
\* conversation whose id the state holds.
C24_ChannelOfActiveConversation ==
    \A i \in ActiveConversationChannels :
        /\ conversationId # Null
        /\ chans[i].key = conversationId

\* the widget moved from one conversation to another: the channel of the
\* first is left, the joined one is the second's, which the state holds
C24_Witness ==
    /\ conversationId = 2
    /\ ActiveConversationChannels = {channel}
    /\ chans[channel].key = 2
    /\ \E i \in DOMAIN chans :
          chans[i].kind = "conversation" /\ chans[i].key = 1 /\ ~chans[i].joined

====
